---- MODULE Spec2Model ----
(***************************************************************************)
(* A model of the Claude relay pipeline of new-api:                        *)
(*   relay/claude_handler.go        ClaudeHelper, the orchestrator         *)
(*   relay/channel/vertex/adaptor.go the Vertex adaptor                    *)
(*   service/error.go               RelayErrorHandler, ResetStatusCode     *)
(*                                                                         *)
(* Strings that the code inspects are modelled by what the code does with  *)
(* them.  A model name is the sequence of its "-"-separated segments, so   *)
(* "claude-sonnet-4-thinking" is <<"claude","sonnet","4","thinking">>;     *)
(* the empty name is <<>>.  A status-code string is the sequence of its    *)
(* characters, so "429" is <<"4","2","9">>.                                *)
(* A Go pointer or interface that may be nil is a sequence of length at    *)
(* most one: <<>> is nil, <<v>> is a value.                                *)
(***************************************************************************)
EXTENDS Integers, Sequences, FiniteSets, TLC

VARIABLES
    pc,                   \* position of ClaudeHelper in its body
    inbound,              \* the request as the client sent it (never changes)
    textRequest,          \* *dto.ClaudeRequest bound from the body, <<>> before binding
    relayInfo,            \* *relaycommon.RelayInfo
    settings,             \* model_setting.GetClaudeSettings() / GetGeminiSettings()
    adaptor,              \* channel.Adaptor returned by GetAdaptor, <<>> is nil
    priceData,            \* helper.ModelPriceHelper result
    preConsumedQuota,     \* first result of preConsumeQuota
    userQuota,            \* second result of preConsumeQuota
    balance,              \* the user's balance row in the ledger
    balance0,             \* the user's balance when the handler was entered
    deferred,             \* TRUE once the deferred refund closure is registered
    statusCodeMappingStr, \* c.GetString("status_code_mapping")
    httpResp,             \* *http.Response, <<>> is nil
    usage,                \* the any returned by DoResponse
    newAPIError,          \* the named result newAPIError, <<>> is nil
    errBefore,            \* newAPIError as it was before the last ResetStatusCode
    handler,              \* the response handler DoResponse dispatched to
    applied,              \* how often the function under test has been applied
    trace,                \* the side effects executed so far, in order
    ctx,                  \* the request context: "live" or "cancelled"
    requestURL,           \* the URL Adaptor.GetRequestURL returned last
    showBody              \* the showBodyWhenFail the error handler is called with

vars == <<pc, inbound, textRequest, relayInfo, settings, adaptor, priceData,
          preConsumedQuota, userQuota, balance, balance0, deferred,
          statusCodeMappingStr, httpResp, usage, newAPIError, errBefore,
          handler, applied, trace, ctx, requestURL, showBody>>

-----------------------------------------------------------------------------
(* Bounds of the model *)

MaxMessages == 1          \* longest messages list a request carries
MaxApplications == 2      \* how often a function under test is applied in a row
MaxTextLen == 2           \* longest error text, in words
MaxRequests == 2          \* concurrent invocations of ClaudeHelper for one user

-----------------------------------------------------------------------------
(* Program constants *)

StatusOK == 200                    \* http.StatusOK
StatusInternalServerError == 500   \* http.StatusInternalServerError
MinThinkingMaxTokens == 1280       \* floor of max_tokens under the thinking adapter
TemperatureOne == 10               \* temperature 1.0, in tenths
RequestModeClaude == 1
RequestModeGemini == 2
RequestModeLlama == 3

-----------------------------------------------------------------------------
(* Option values *)

Nil == <<>>
Some(v) == <<v>>
IsNil(o) == Len(o) = 0
Val(o) == o[1]

Max(a, b) == IF a >= b THEN a ELSE b

-----------------------------------------------------------------------------
(* strings.HasPrefix / HasSuffix / TrimSuffix / Contains on model names.    *)
(* The second argument is a segment: HasSuffix(s, "thinking") is the code's *)
(* strings.HasSuffix(s, "-thinking"); HasPrefix(s, "claude") is            *)
(* strings.HasPrefix(s, "claude"); no segment of the alphabet used here     *)
(* properly contains another, so matching whole segments is exact.          *)

HasPrefix(s, seg) == Len(s) >= 1 /\ s[1] = seg

Contains(s, seg) == \E i \in 1..Len(s) : s[i] = seg

HasSuffix(s, seg) == Len(s) >= 2 /\ s[Len(s)] = seg

TrimSuffix(s, seg) == IF HasSuffix(s, seg) THEN SubSeq(s, 1, Len(s) - 1) ELSE s

-----------------------------------------------------------------------------
(* Inputs *)

ModelNames ==
    { <<>>,
      <<"claude", "3", "5", "sonnet", "20241022">>,
      <<"claude", "sonnet", "4", "20250514", "thinking">>,
      <<"gemini", "pro", "thinking">>,
      <<"gpt", "thinking", "thinking">> }

MessageLists ==
    { [isNil |-> TRUE, len |-> 0] } \cup
    { [isNil |-> FALSE, len |-> n] : n \in 0..MaxMessages }

MaxTokensChoices == {0, 500, 1281}

\* The optional fields a client may send: a thinking block, top_p and
\* temperature (both in tenths).
OptionalFields ==
    { [Thinking |-> Nil, TopP |-> 0, Temperature |-> Nil],
      [Thinking |-> Nil, TopP |-> 9, Temperature |-> Some(7)],
      [Thinking |-> Some([Type |-> "enabled", BudgetTokens |-> 2048]), TopP |-> 9,
       Temperature |-> Some(7)] }

\* A request body: either it does not bind as JSON, or it is a ClaudeRequest.
Bodies ==
    { [bindOK |-> FALSE, Messages |-> [isNil |-> TRUE, len |-> 0], Model |-> <<>>,
       MaxTokens |-> 0, Stream |-> FALSE, Thinking |-> Nil, TopP |-> 0,
       Temperature |-> Nil] } \cup
    { [bindOK |-> TRUE, Messages |-> ms, Model |-> m, MaxTokens |-> t,
       Stream |-> st, Thinking |-> o.Thinking, TopP |-> o.TopP,
       Temperature |-> o.Temperature] :
         ms \in MessageLists, m \in ModelNames, t \in MaxTokensChoices,
         st \in BOOLEAN, o \in OptionalFields }

SettingsChoices ==
    { [ThinkingAdapterEnabled |-> e, ThinkingAdapterBudgetTokensPercentage |-> p,
       DefaultMaxTokens |-> d, GeminiThinkingAdapterEnabled |-> g] :
         e \in BOOLEAN, p \in {50, 80}, d \in {4096}, g \in {TRUE} }

Balances == {5, 1000000}

PromptTokenCounts == {7}

Ratios == {0, 1}

CompletionRatios == {1}

GroupRatios == {1}

\* The channel a request was routed to: the adaptor family, the channel key
\* (service-account JSON for Vertex) and the region setting.
Channels ==
    { [ApiType |-> "unknown", ApiKey |-> "full", ApiVersion |-> "global"],
      [ApiType |-> "vertex", ApiKey |-> "not_json", ApiVersion |-> "global"],
      [ApiType |-> "vertex", ApiKey |-> "no_project_id", ApiVersion |-> "us-east5"],
      [ApiType |-> "vertex", ApiKey |-> "full", ApiVersion |-> "global"],
      [ApiType |-> "vertex", ApiKey |-> "full", ApiVersion |-> "us-east5"] }

ErrorStatusCodes == {429, 500}

ErrorBodies == {"unreadable", "not_json", "error_message", "error_no_message"}

\* The responses an upstream can give: a 200 with a result body, or an error
\* status with an error body.  A response that came from the HTTP client
\* carries the request it answers.
Responses ==
    { [StatusCode |-> StatusOK, sse |-> s, body |-> "result", hasRequest |-> TRUE,
       closed |-> FALSE] : s \in BOOLEAN } \cup
    { [StatusCode |-> sc, sse |-> FALSE, body |-> b, hasRequest |-> TRUE,
       closed |-> FALSE] : sc \in ErrorStatusCodes, b \in ErrorBodies } \cup
    { [StatusCode |-> sc, sse |-> TRUE, body |-> "error_message", hasRequest |-> TRUE,
       closed |-> FALSE] : sc \in ErrorStatusCodes }

\* What a response handler hands back: a usage value, a zero-valued one, a nil
\* *dto.Usage, or an error.
NoUsage == [kind |-> "nil_interface", PromptTokens |-> 0, CompletionTokens |-> 0,
            TotalTokens |-> 0]

HandlerUsages ==
    { [kind |-> "value", PromptTokens |-> 7, CompletionTokens |-> 3, TotalTokens |-> 10],
      [kind |-> "value", PromptTokens |-> 0, CompletionTokens |-> 0, TotalTokens |-> 0],
      [kind |-> "nil_pointer", PromptTokens |-> 0, CompletionTokens |-> 0,
       TotalTokens |-> 0] }

-----------------------------------------------------------------------------
(* types.NewAPIError values.  Err is the wrapped cause: its kind, the status *)
(* code printed into its text, and the response body printed into its text. *)

NoCause == [kind |-> "nil", code |-> 0, body |-> ""]

Cause(k) == [kind |-> k, code |-> 0, body |-> ""]

NewError(cause, errorCode) ==
    [Err |-> cause, ErrorType |-> "new_api_error", errorCode |-> errorCode,
     StatusCode |-> StatusInternalServerError]

NewOpenAIError(cause, errorCode, statusCode) ==
    [Err |-> cause, ErrorType |-> "openai_error", errorCode |-> errorCode,
     StatusCode |-> statusCode]

-----------------------------------------------------------------------------
(* getAndValidateClaudeRequest: bind the body, then require messages and    *)
(* model.  err = "" is a nil error.                                        *)

BoundRequest(body) ==
    [Messages |-> body.Messages, Model |-> body.Model, MaxTokens |-> body.MaxTokens,
     Stream |-> body.Stream, Thinking |-> body.Thinking, TopP |-> body.TopP,
     Temperature |-> body.Temperature]

getAndValidateClaudeRequestNoLenCheck(body) ==
    IF ~body.bindOK
    THEN [textRequest |-> Nil, err |-> "bind"]
    ELSE IF body.Messages.isNil
    THEN [textRequest |-> Nil, err |-> "field messages is required"]
    ELSE IF body.Model = <<>>
    THEN [textRequest |-> Nil, err |-> "field model is required"]
    ELSE [textRequest |-> Some(BoundRequest(body)), err |-> ""]

getAndValidateClaudeRequest(body) ==
    IF ~body.bindOK
    THEN [textRequest |-> Nil, err |-> "bind"]
    ELSE IF body.Messages.isNil \/ body.Messages.len = 0
    THEN [textRequest |-> Nil, err |-> "field messages is required"]
    ELSE IF body.Model = <<>>
    THEN [textRequest |-> Nil, err |-> "field model is required"]
    ELSE [textRequest |-> Some(BoundRequest(body)), err |-> ""]

-----------------------------------------------------------------------------
(* The quota ledger and the pricing oracle                                  *)

\* helper.ModelPriceHelper: the amount to reserve before the upstream call.
ModelPriceHelper(promptTokens, maxTokens, modelRatio, completionRatio, groupRatio) ==
    [ShouldPreConsumedQuota |->
         promptTokens * modelRatio * groupRatio
         + maxTokens * modelRatio * completionRatio * groupRatio,
     ModelRatio |-> modelRatio, CompletionRatio |-> completionRatio,
     GroupRatio |-> groupRatio]

\* preConsumeQuota: reserve amount against the balance bal.
preConsumeQuota(amount, bal) ==
    IF bal < amount
    THEN [ok |-> FALSE, preConsumedQuota |-> 0, userQuota |-> bal, balance |-> bal]
    ELSE [ok |-> TRUE, preConsumedQuota |-> amount, userQuota |-> bal,
          balance |-> bal - amount]

\* returnPreConsumedQuota: give the reservation back.
returnPreConsumedQuota(bal, preConsumed) == bal + preConsumed

-----------------------------------------------------------------------------
(* Leaving ClaudeHelper.  The closure deferred at lines 88-92 runs on every *)
(* exit after its registration, with the named result as it then stands.    *)

RefundFiresNever(isDeferred, err) == FALSE

RefundFiresAlways(isDeferred, err) == err # Nil

RefundFires(isDeferred, err) == isDeferred /\ err # Nil

\* return e, after tr has been executed
Return(e, tr) ==
    /\ pc' = "returned"
    /\ newAPIError' = e
    /\ IF RefundFires(deferred, e)
       THEN /\ balance' = returnPreConsumedQuota(balance, preConsumedQuota)
            /\ trace' = Append(tr, "Refund")
       ELSE /\ balance' = balance
            /\ trace' = tr

\* a run-time panic after tr has been executed: the named result keeps the
\* value e it had, and the deferred closure runs while the stack unwinds
Panic(e, tr) ==
    /\ pc' = "panicked"
    /\ newAPIError' = e
    /\ IF RefundFires(deferred, e)
       THEN /\ balance' = returnPreConsumedQuota(balance, preConsumedQuota)
            /\ trace' = Append(tr, "Refund")
       ELSE /\ balance' = balance
            /\ trace' = tr

-----------------------------------------------------------------------------
(* ClaudeHelper, lines 37-92: up to the reservation                         *)

NoPrice == ModelPriceHelper(0, 0, 0, 0, 0)

UnsetInfo ==
    [IsStream |-> FALSE, OriginModelName |-> <<>>, UpstreamModelName |-> <<>>,
     PromptTokens |-> 0, ApiType |-> "", ApiKey |-> "", ApiVersion |-> "",
     RelayMode |-> "claude_messages"]

\* relaycommon.GenRelayInfoClaude: the context of one request on channel ch
GenRelayInfoClaude(body, ch) ==
    [UnsetInfo EXCEPT !.OriginModelName = body.Model,
                      !.UpstreamModelName = body.Model,
                      !.ApiType = ch.ApiType,
                      !.ApiKey = ch.ApiKey,
                      !.ApiVersion = ch.ApiVersion]

Init ==
    /\ pc = "Validate"
    /\ inbound \in Bodies
    /\ textRequest = Nil
    /\ \E ch \in Channels : relayInfo = GenRelayInfoClaude(inbound, ch)
    /\ settings \in SettingsChoices
    /\ adaptor = Nil
    /\ priceData = NoPrice
    /\ preConsumedQuota = 0
    /\ userQuota = 0
    /\ balance \in Balances
    /\ balance0 = balance
    /\ deferred = FALSE
    /\ statusCodeMappingStr = <<>>
    /\ httpResp = Nil
    /\ usage = Nil
    /\ newAPIError = Nil
    /\ errBefore = Nil
    /\ handler = ""
    /\ applied = 0
    /\ trace = <<>>
    /\ ctx = "live"
    /\ requestURL = Nil
    /\ showBody = FALSE

\* lines 47-58
Validate ==
    /\ pc = "Validate"
    /\ LET r == getAndValidateClaudeRequest(inbound) IN
       IF r.err # ""
       THEN /\ Return(Some(NewError(Cause(r.err), "InvalidRequest")), trace)
            /\ UNCHANGED <<textRequest, relayInfo>>
       ELSE /\ textRequest' = r.textRequest
            /\ relayInfo' = [relayInfo EXCEPT
                                !.IsStream = IF Val(r.textRequest).Stream THEN TRUE ELSE @]
            /\ pc' = "MapModel"
            /\ UNCHANGED <<newAPIError, balance, trace>>
    /\ UNCHANGED <<ctx, requestURL, showBody>>
    /\ UNCHANGED <<inbound, settings, adaptor, priceData, preConsumedQuota, userQuota,
                   balance0, deferred, statusCodeMappingStr, httpResp, usage,
                   errBefore, handler, applied>>

\* lines 60-63: helper.ModelMappedHelper fails, or maps the model to itself
MapModel ==
    /\ pc = "MapModel"
    /\ \E ok \in BOOLEAN :
         IF ~ok
         THEN /\ Return(Some(NewError(Cause("model mapping"), "ChannelModelMappedError")),
                        Append(trace, "ModelMappedHelper"))
              /\ UNCHANGED relayInfo
         ELSE /\ relayInfo' = [relayInfo EXCEPT !.UpstreamModelName = Val(textRequest).Model]
              /\ trace' = Append(trace, "ModelMappedHelper")
              /\ pc' = "CountTokens"
              /\ UNCHANGED <<newAPIError, balance>>
    /\ UNCHANGED <<ctx, requestURL, showBody>>
    /\ UNCHANGED <<inbound, textRequest, settings, adaptor, priceData, preConsumedQuota,
                   userQuota, balance0, deferred, statusCodeMappingStr, httpResp, usage,
                   errBefore, handler, applied>>

\* lines 65-75 and getClaudePromptTokens, lines 203-212
CountTokens ==
    /\ pc = "CountTokens"
    /\ \/ /\ relayInfo' = [relayInfo EXCEPT !.PromptTokens = 0]
          /\ Return(Some(NewError(Cause("count token"), "CountTokenFailed")),
                    Append(trace, "CountTokenClaudeRequest"))
       \/ \E promptTokens \in PromptTokenCounts :
            /\ relayInfo' = [relayInfo EXCEPT !.PromptTokens = promptTokens]
            /\ trace' = Append(trace, "CountTokenClaudeRequest")
            /\ pc' = "Price"
            /\ UNCHANGED <<newAPIError, balance>>
    /\ UNCHANGED <<ctx, requestURL, showBody>>
    /\ UNCHANGED <<inbound, textRequest, settings, adaptor, priceData, preConsumedQuota,
                   userQuota, balance0, deferred, statusCodeMappingStr, httpResp, usage,
                   errBefore, handler, applied>>

\* lines 77-80: the price is computed from the request's MaxTokens as it is now
Price ==
    /\ pc = "Price"
    /\ \/ /\ Return(Some(NewError(Cause("model price"), "ModelPriceError")),
                    Append(trace, "ModelPriceHelper"))
          /\ UNCHANGED priceData
       \/ \E mr \in Ratios, cr \in CompletionRatios, gr \in GroupRatios :
            /\ priceData' = ModelPriceHelper(relayInfo.PromptTokens,
                                             Val(textRequest).MaxTokens, mr, cr, gr)
            /\ trace' = Append(trace, "ModelPriceHelper")
            /\ pc' = "Reserve"
            /\ UNCHANGED <<newAPIError, balance>>
    /\ UNCHANGED <<ctx, requestURL, showBody>>
    /\ UNCHANGED <<inbound, textRequest, relayInfo, settings, adaptor, preConsumedQuota,
                   userQuota, balance0, deferred, statusCodeMappingStr, httpResp, usage,
                   errBefore, handler, applied>>

\* lines 82-92: reserve, and on success register the deferred refund
Reserve ==
    /\ pc = "Reserve"
    /\ LET r == preConsumeQuota(priceData.ShouldPreConsumedQuota, balance) IN
       IF ~r.ok
       THEN /\ pc' = "returned"
            /\ newAPIError' = Some(NewError(Cause("quota"), "InsufficientUserQuota"))
            /\ trace' = Append(trace, "preConsumeQuotaFailed")
            /\ UNCHANGED <<balance, preConsumedQuota, userQuota, deferred>>
       ELSE /\ preConsumedQuota' = r.preConsumedQuota
            /\ userQuota' = r.userQuota
            /\ balance' = r.balance
            /\ deferred' = TRUE
            /\ trace' = Append(trace, "preConsumeQuota")
            /\ pc' = "GetAdaptor"
            /\ UNCHANGED newAPIError
    /\ UNCHANGED <<ctx, requestURL, showBody>>
    /\ UNCHANGED <<inbound, textRequest, relayInfo, settings, adaptor, priceData,
                   balance0, statusCodeMappingStr, httpResp, usage, errBefore, handler,
                   applied>>

-----------------------------------------------------------------------------
(* Decimal strings: strconv.Itoa and strconv.Atoi.  A string is the         *)
(* sequence of its characters.                                              *)

Digits == <<"0", "1", "2", "3", "4", "5", "6", "7", "8", "9">>

IsDigit(c) == \E d \in 1..10 : Digits[d] = c

DigitVal(c) == (CHOOSE d \in 1..10 : Digits[d] = c) - 1

RECURSIVE ItoaNat(_)
ItoaNat(n) == IF n < 10 THEN <<Digits[n + 1]>>
              ELSE ItoaNat(n \div 10) \o <<Digits[(n % 10) + 1]>>

Itoa(n) == IF n < 0 THEN <<"-">> \o ItoaNat(0 - n) ELSE ItoaNat(n)

RECURSIVE DigitsVal(_)
DigitsVal(s) == IF Len(s) = 0 THEN 0
                ELSE 10 * DigitsVal(SubSeq(s, 1, Len(s) - 1)) + DigitVal(s[Len(s)])

\* strconv.Atoi: an optional sign and at least one digit; 0 and an error otherwise
Atoi(s) ==
    LET signed == Len(s) >= 1 /\ s[1] \in {"+", "-"}
        ds == IF signed THEN Tail(s) ELSE s
    IN  IF Len(ds) >= 1 /\ \A i \in 1..Len(ds) : IsDigit(ds[i])
        THEN [ok |-> TRUE,
              value |-> IF signed /\ s[1] = "-" THEN 0 - DigitsVal(ds) ELSE DigitsVal(ds)]
        ELSE [ok |-> FALSE, value |-> 0]

-----------------------------------------------------------------------------
(* service/error.go: ResetStatusCode                                        *)
(*                                                                         *)
(* A status_code_mapping string is given by what it is: kind "empty" is "", *)
(* "braces" is "{}", "invalid" is text that is not JSON, "wrong_type" is a  *)
(* JSON document that is not an object of strings, and "object" is a JSON   *)
(* object of strings, whose members are the function table.                 *)

MappingOf(kind, table) == [kind |-> kind, table |-> table]

NoTable == [k \in {} |-> <<>>]

\* json.Unmarshal into a map[string]string
UnmarshalMapping(str) ==
    IF str.kind = "object" THEN [ok |-> TRUE, table |-> str.table]
    ELSE IF str.kind = "braces" THEN [ok |-> TRUE, table |-> NoTable]
    ELSE [ok |-> FALSE, table |-> NoTable]

\* the lookup without its ok test: a missing key reads as ""
ResetStatusCodeNoOkCheck(err, str) ==
    LET m == UnmarshalMapping(str)
        codeStr == Itoa(err.StatusCode)
    IN  IF str.kind \in {"empty", "braces"} THEN err
        ELSE IF ~m.ok THEN err
        ELSE IF err.StatusCode = StatusOK THEN err
        ELSE [err EXCEPT !.StatusCode =
                 Atoi(IF codeStr \in DOMAIN m.table THEN m.table[codeStr] ELSE <<>>).value]

ResetStatusCode(err, str) ==
    LET m == UnmarshalMapping(str)
        codeStr == Itoa(err.StatusCode)
    IN  IF str.kind \in {"empty", "braces"} THEN err
        ELSE IF ~m.ok THEN err
        ELSE IF err.StatusCode = StatusOK THEN err
        ELSE IF codeStr \in DOMAIN m.table
        THEN [err EXCEPT !.StatusCode = Atoi(m.table[codeStr]).value]
        ELSE err

-----------------------------------------------------------------------------------------------------------------------------------------------------
(* service/error.go: RelayErrorHandler and RelayErrorHandlerLegacy.  The    *)
(* result says whether the call panicked, the error returned, and whether   *)
(* the response body was closed.                                            *)
(*                                                                         *)
(* A response body is given by what reading and decoding it yields:         *)
(* "unreadable" fails in io.ReadAll, "not_json" fails in common.Unmarshal,  *)
(* "error_message" and "error_other_message" decode to an envelope with a   *)
(* message, "error_no_message" decodes to an envelope without one.          *)

\* common.Unmarshal into dto.GeneralErrorResponse: the error member it holds
ParseErrorBody(body) ==
    IF body = "error_message"
    THEN [ok |-> TRUE, message |-> "upstream error message", code |-> "upstream code"]
    ELSE IF body = "error_other_message"
    THEN [ok |-> TRUE, message |-> "other upstream error message",
          code |-> "other upstream code"]
    ELSE IF body = "error_no_message"
    THEN [ok |-> TRUE, message |-> "", code |-> ""]
    ELSE [ok |-> FALSE, message |-> "", code |-> ""]

\* types.WithOpenAIError
WithOpenAIError(openAIError, statusCode) ==
    [Err |-> Cause(openAIError.message), ErrorType |-> "openai_error",
     errorCode |-> openAIError.code, StatusCode |-> statusCode]

\* types.NewErrorWithStatusCode
NewErrorWithStatusCode(cause, errorCode, statusCode) ==
    [Err |-> cause, ErrorType |-> "new_api_error", errorCode |-> errorCode,
     StatusCode |-> statusCode]

\* fmt.Errorf("bad response status code %d, body: %s", ...) and the form without body
BadResponseStatusCode(statusCode, body) ==
    [kind |-> "bad response status code", code |-> statusCode, body |-> body]

\* the handler with showBodyWhenFail read as true
RelayErrorHandlerShowsBody(resp, showBodyWhenFail) ==
    LET first == [Err |-> NoCause, ErrorType |-> "openai_error", errorCode |-> "",
                  StatusCode |-> resp.StatusCode]
        errResponse == ParseErrorBody(resp.body)
    IN  IF ~resp.hasRequest
        THEN [panic |-> TRUE, err |-> first, closed |-> resp.closed]
        ELSE IF resp.body = "unreadable"
        THEN [panic |-> FALSE, err |-> first, closed |-> resp.closed]
        ELSE IF ~errResponse.ok
        THEN [panic |-> FALSE,
              err |-> [first EXCEPT !.Err = BadResponseStatusCode(resp.StatusCode, resp.body)],
              closed |-> TRUE]
        ELSE IF errResponse.message # ""
        THEN [panic |-> FALSE, err |-> WithOpenAIError(errResponse, resp.StatusCode),
              closed |-> TRUE]
        ELSE [panic |-> FALSE,
              err |-> [NewErrorWithStatusCode(Cause("upstream body as message"),
                                              "BadResponseStatusCode", resp.StatusCode)
                         EXCEPT !.ErrorType = "openai_error"],
              closed |-> TRUE]

\* lines 85-134: resp.Request.URL is read first (line 88)
RelayErrorHandler(resp, showBodyWhenFail) ==
    LET first == [Err |-> NoCause, ErrorType |-> "openai_error", errorCode |-> "",
                  StatusCode |-> resp.StatusCode]
        errResponse == ParseErrorBody(resp.body)
    IN  IF ~resp.hasRequest
        THEN [panic |-> TRUE, err |-> first, closed |-> resp.closed]
        ELSE IF resp.body = "unreadable"
        THEN [panic |-> FALSE, err |-> first, closed |-> resp.closed]
        ELSE IF ~errResponse.ok
        THEN [panic |-> FALSE,
              err |-> [first EXCEPT !.Err =
                         BadResponseStatusCode(resp.StatusCode,
                                               IF showBodyWhenFail THEN resp.body ELSE "")],
              closed |-> TRUE]
        ELSE IF errResponse.message # ""
        THEN [panic |-> FALSE, err |-> WithOpenAIError(errResponse, resp.StatusCode),
              closed |-> TRUE]
        ELSE [panic |-> FALSE,
              err |-> [NewErrorWithStatusCode(Cause("upstream body as message"),
                                              "BadResponseStatusCode", resp.StatusCode)
                         EXCEPT !.ErrorType = "openai_error"],
              closed |-> TRUE]

\* lines 137-167
RelayErrorHandlerLegacy(resp, showBodyWhenFail) ==
    LET first == [Err |-> NoCause, ErrorType |-> "openai_error", errorCode |-> "",
                  StatusCode |-> resp.StatusCode]
        errResponse == ParseErrorBody(resp.body)
    IN  IF resp.body = "unreadable"
        THEN [panic |-> FALSE, err |-> first, closed |-> resp.closed]
        ELSE IF ~errResponse.ok
        THEN [panic |-> FALSE,
              err |-> [first EXCEPT !.Err =
                         BadResponseStatusCode(resp.StatusCode,
                                               IF showBodyWhenFail THEN resp.body ELSE "")],
              closed |-> TRUE]
        ELSE IF errResponse.message # ""
        THEN [panic |-> FALSE, err |-> WithOpenAIError(errResponse, resp.StatusCode),
              closed |-> TRUE]
        ELSE [panic |-> FALSE,
              err |-> [NewErrorWithStatusCode(Cause("upstream body as message"),
                                              "BadResponseStatusCode", resp.StatusCode)
                         EXCEPT !.ErrorType = "openai_error"],
              closed |-> TRUE]

-----
(* relay/channel/vertex/adaptor.go                                          *)

claudeModelMap ==
    ( <<"claude", "3", "sonnet", "20240229">> :> <<"claude", "3", "sonnet@20240229">> ) @@
    ( <<"claude", "3", "opus", "20240229">> :> <<"claude", "3", "opus@20240229">> ) @@
    ( <<"claude", "3", "haiku", "20240307">> :> <<"claude", "3", "haiku@20240307">> ) @@
    ( <<"claude", "3", "5", "sonnet", "20240620">> :>
          <<"claude", "3", "5", "sonnet@20240620">> ) @@
    ( <<"claude", "3", "5", "sonnet", "20241022">> :>
          <<"claude", "3", "5", "sonnet", "v2@20241022">> ) @@
    ( <<"claude", "3", "7", "sonnet", "20250219">> :>
          <<"claude", "3", "7", "sonnet@20250219">> ) @@
    ( <<"claude", "sonnet", "4", "20250514">> :> <<"claude", "sonnet", "4@20250514">> ) @@
    ( <<"claude", "opus", "4", "20250514">> :> <<"claude", "opus", "4@20250514">> )

NewAdaptor == [RequestMode |-> 0, AccountCredentials |-> [ProjectID |-> ""]]

\* GetAdaptor: the registry, from ApiType to a fresh adaptor
GetAdaptor(apiType) == IF apiType = "vertex" THEN Some(NewAdaptor) ELSE Nil

\* Adaptor.Init
AdaptorInit(a, info) ==
    IF HasPrefix(info.UpstreamModelName, "claude")
    THEN [a EXCEPT !.RequestMode = RequestModeClaude]
    ELSE IF HasPrefix(info.UpstreamModelName, "gemini")
    THEN [a EXCEPT !.RequestMode = RequestModeGemini]
    ELSE IF Contains(info.UpstreamModelName, "llama")
    THEN [a EXCEPT !.RequestMode = RequestModeLlama]
    ELSE a

\* json.Unmarshal of the channel key into Credentials
UnmarshalCredentials(apiKey) ==
    IF apiKey = "not_json" THEN [ok |-> FALSE, ProjectID |-> ""]
    ELSE IF apiKey = "no_project_id" THEN [ok |-> TRUE, ProjectID |-> ""]
    ELSE [ok |-> TRUE, ProjectID |-> "project"]

\* GetModelRegion: the region configured for the channel
GetModelRegion(apiVersion, model) == apiVersion

\* strings.Split(name, "-thinking-")[0]
BeforeThinkingInfix(name) ==
    LET i == CHOOSE j \in 2..(Len(name) - 1) :
                 /\ name[j] = "thinking"
                 /\ \A k \in 2..(j - 1) : name[k] # "thinking"
    IN  SubSeq(name, 1, i - 1)

HasThinkingInfix(name) == \E j \in 2..(Len(name) - 1) : name[j] = "thinking"

NoURL == [host |-> "", project |-> "", location |-> "", publisher |-> "",
          model |-> <<>>, method |-> ""]

VertexURL(region, project, publisher, model, method) ==
    [host |-> IF region = "global" THEN "aiplatform.googleapis.com"
              ELSE "<region>-aiplatform.googleapis.com",
     project |-> project, location |-> region, publisher |-> publisher,
     model |-> model, method |-> method]

\* Adaptor.GetRequestURL: the URL or an error, the adaptor and the info it leaves
GetRequestURL(a, info) ==
    LET adc == UnmarshalCredentials(info.ApiKey)
        region == GetModelRegion(info.ApiVersion, info.OriginModelName)
        a1 == [a EXCEPT !.AccountCredentials = [ProjectID |-> adc.ProjectID]]
    IN  IF ~adc.ok
        THEN [err |-> "failed to decode credentials file", url |-> NoURL,
              adaptor |-> a, info |-> info]
        ELSE IF a.RequestMode = RequestModeGemini
        THEN LET name == info.UpstreamModelName
                 stripped ==
                     IF ~settings.GeminiThinkingAdapterEnabled THEN name
                     ELSE IF HasThinkingInfix(name) THEN BeforeThinkingInfix(name)
                     ELSE IF HasSuffix(name, "thinking") THEN TrimSuffix(name, "thinking")
                     ELSE IF HasSuffix(name, "nothinking")
                     THEN TrimSuffix(name, "nothinking")
                     ELSE name
                 method == IF info.IsStream THEN "streamGenerateContent?alt=sse"
                           ELSE "generateContent"
             IN  [err |-> "",
                  url |-> VertexURL(region, adc.ProjectID, "google", stripped, method),
                  adaptor |-> a1,
                  info |-> [info EXCEPT !.UpstreamModelName = stripped]]
        ELSE IF a.RequestMode = RequestModeClaude
        THEN LET method == IF info.IsStream THEN "streamRawPredict?alt=sse"
                           ELSE "rawPredict"
                 model == IF info.UpstreamModelName \in DOMAIN claudeModelMap
                          THEN claudeModelMap[info.UpstreamModelName]
                          ELSE info.UpstreamModelName
             IN  [err |-> "",
                  url |-> VertexURL(region, adc.ProjectID, "anthropic", model, method),
                  adaptor |-> a1, info |-> info]
        ELSE IF a.RequestMode = RequestModeLlama
        THEN [err |-> "",
              url |-> [host |-> "<region>-aiplatform.googleapis.com",
                       project |-> adc.ProjectID, location |-> region,
                       publisher |-> "openapi", model |-> <<>>,
                       method |-> "chat/completions"],
              adaptor |-> a1, info |-> info]
        ELSE [err |-> "unsupported request mode", url |-> NoURL, adaptor |-> a1,
              info |-> info]

\* Adaptor.DoResponse: the handler the response is dispatched to, "" for none
DoResponseHandler(a, info) ==
    IF info.IsStream
    THEN IF a.RequestMode = RequestModeClaude THEN "claude.ClaudeStreamHandler"
         ELSE IF a.RequestMode = RequestModeGemini
         THEN IF info.RelayMode = "gemini" THEN "gemini.GeminiTextGenerationStreamHandler"
              ELSE "gemini.GeminiChatStreamHandler"
         ELSE IF a.RequestMode = RequestModeLlama THEN "openai.OaiStreamHandler"
         ELSE ""
    ELSE IF a.RequestMode = RequestModeClaude THEN "claude.ClaudeHandler"
         ELSE IF a.RequestMode = RequestModeGemini
         THEN IF info.RelayMode = "gemini" THEN "gemini.GeminiTextGenerationHandler"
              ELSE "gemini.GeminiChatHandler"
         ELSE IF a.RequestMode = RequestModeLlama THEN "openai.OpenaiHandler"
         ELSE ""

-----------------------------------------------------------------------------
(* ClaudeHelper, lines 101-125: the default max_tokens and the thinking     *)
(* adapter.  The percentage is held in hundredths; int(float64(n) * p)      *)
(* truncates.                                                               *)

GetDefaultMaxTokens(s, model) == s.DefaultMaxTokens

SubstituteDefaultMaxTokens(req, s) ==
    IF req.MaxTokens = 0
    THEN [req EXCEPT !.MaxTokens = GetDefaultMaxTokens(s, req.Model)]
    ELSE req

BudgetTokensRounded(maxTokens, percentage) == (maxTokens * percentage + 50) \div 100

BudgetTokens(maxTokens, percentage) == (maxTokens * percentage) \div 100

\* the transform with the suffix test lost and the name cut at its last "-"
ThinkingTransformUnguarded(req, info, s) ==
    IF s.ThinkingAdapterEnabled
    THEN LET maxTokens == IF req.MaxTokens < MinThinkingMaxTokens
                          THEN MinThinkingMaxTokens ELSE req.MaxTokens
             r1 == IF req.Thinking = Nil
                   THEN [req EXCEPT
                           !.MaxTokens = maxTokens,
                           !.Thinking = Some([Type |-> "enabled",
                                              BudgetTokens |->
                                                BudgetTokens(maxTokens,
                                                  s.ThinkingAdapterBudgetTokensPercentage)]),
                           !.TopP = 0,
                           !.Temperature = Some(TemperatureOne)]
                   ELSE req
             model == IF Len(r1.Model) >= 1 THEN SubSeq(r1.Model, 1, Len(r1.Model) - 1)
                      ELSE r1.Model
         IN  [textRequest |-> [r1 EXCEPT !.Model = model],
              relayInfo |-> [info EXCEPT !.UpstreamModelName = model]]
    ELSE [textRequest |-> req, relayInfo |-> info]

\* the transform with the test for a client-supplied thinking block lost
ThinkingTransformAlwaysSynthesizes(req, info, s) ==
    IF s.ThinkingAdapterEnabled /\ HasSuffix(req.Model, "thinking")
    THEN LET maxTokens == IF req.MaxTokens < MinThinkingMaxTokens
                          THEN MinThinkingMaxTokens ELSE req.MaxTokens
             r1 == [req EXCEPT
                      !.MaxTokens = maxTokens,
                      !.Thinking = Some([Type |-> "enabled",
                                         BudgetTokens |->
                                           BudgetTokens(maxTokens,
                                             s.ThinkingAdapterBudgetTokensPercentage)]),
                      !.TopP = 0,
                      !.Temperature = Some(TemperatureOne)]
             model == TrimSuffix(r1.Model, "thinking")
         IN  [textRequest |-> [r1 EXCEPT !.Model = model],
              relayInfo |-> [info EXCEPT !.UpstreamModelName = model]]
    ELSE [textRequest |-> req, relayInfo |-> info]

ThinkingTransform(req, info, s) ==
    IF s.ThinkingAdapterEnabled /\ HasSuffix(req.Model, "thinking")
    THEN LET maxTokens == IF req.MaxTokens < MinThinkingMaxTokens
                          THEN MinThinkingMaxTokens ELSE req.MaxTokens
             r1 == IF req.Thinking = Nil
                   THEN [req EXCEPT
                           !.MaxTokens = maxTokens,
                           !.Thinking = Some([Type |-> "enabled",
                                              BudgetTokens |->
                                                BudgetTokens(maxTokens,
                                                  s.ThinkingAdapterBudgetTokensPercentage)]),
                           !.TopP = 0,
                           !.Temperature = Some(TemperatureOne)]
                   ELSE req
             model == TrimSuffix(r1.Model, "thinking")
         IN  [textRequest |-> [r1 EXCEPT !.Model = model],
              relayInfo |-> [info EXCEPT !.UpstreamModelName = model]]
    ELSE [textRequest |-> req, relayInfo |-> info]

-----------------------------------------------------------------------------
(* service.PostClaudeConsumeQuota: settle the reservation against the usage *)

ActualQuota(info, u, price) ==
    LET promptTokens == IF u.PromptTokens = 0 /\ u.CompletionTokens = 0
                        THEN info.PromptTokens ELSE u.PromptTokens
    IN  promptTokens * price.ModelRatio * price.GroupRatio
        + u.CompletionTokens * price.ModelRatio * price.CompletionRatio * price.GroupRatio

PostClaudeConsumeQuota(bal, info, u, preConsumed, price) ==
    bal + preConsumed - ActualQuota(info, u, price)

-----------------------------------------------------------------------------
(* ClaudeHelper, lines 94-201: after the reservation                        *)

\* the status_code_mapping values a channel of the pipeline carries
ChannelMappings ==
    { MappingOf("empty", NoTable),
      MappingOf("object", (<<"4", "2", "9">> :> <<"5", "0", "3">>) @@
                          (<<"5", "0", "0">> :> <<"a", "b", "c">>)) }

\* line 158
PromoteIsStreamOverwrite(isStream, resp) == resp.sse

PromoteIsStreamKeep(isStream, resp) == isStream

PromoteIsStream(isStream, resp) == isStream \/ resp.sse

\* line 166
StatusIsErrorOnlyServerErrors(resp) == resp.StatusCode >= StatusInternalServerError

StatusIsError(resp) == resp.StatusCode # StatusOK

\* lines 94-98
AcquireAdaptor ==
    /\ pc = "GetAdaptor"
    /\ LET a == GetAdaptor(relayInfo.ApiType) IN
       IF a = Nil
       THEN /\ Return(Some(NewError(Cause("invalid api type"), "InvalidApiType")),
                      Append(trace, "GetAdaptor"))
            /\ UNCHANGED adaptor
       ELSE /\ adaptor' = Some(AdaptorInit(Val(a), relayInfo))
            /\ trace' = trace \o <<"GetAdaptor", "Init">>
            /\ pc' = "Transform"
            /\ UNCHANGED <<newAPIError, balance>>
    /\ UNCHANGED <<ctx, requestURL, showBody>>
    /\ UNCHANGED <<inbound, textRequest, relayInfo, settings, priceData, preConsumedQuota,
                   userQuota, balance0, deferred, statusCodeMappingStr, httpResp, usage,
                   errBefore, handler, applied>>

\* lines 101-125
Transform ==
    /\ pc = "Transform"
    /\ LET r == ThinkingTransform(SubstituteDefaultMaxTokens(Val(textRequest), settings),
                                  relayInfo, settings) IN
         /\ textRequest' = Some(r.textRequest)
         /\ relayInfo' = r.relayInfo
    /\ pc' = "Convert"
    /\ UNCHANGED <<ctx, requestURL, showBody>>
    /\ UNCHANGED <<inbound, settings, adaptor, priceData, preConsumedQuota, userQuota,
                   balance, balance0, deferred, statusCodeMappingStr, httpResp, usage,
                   newAPIError, errBefore, handler, applied, trace>>

\* lines 127-140: Adaptor.ConvertClaudeRequest does not fail; common.Marshal may
Convert ==
    /\ pc = "Convert"
    /\ \/ /\ Return(Some(NewError(Cause("marshal"), "ConvertRequestFailed")),
                    trace \o <<"ConvertClaudeRequest", "Marshal">>)
          /\ UNCHANGED statusCodeMappingStr
       \/ \E str \in ChannelMappings :
            /\ statusCodeMappingStr' = str
            /\ trace' = trace \o <<"ConvertClaudeRequest", "Marshal">>
            /\ pc' = "DoRequest"
            /\ UNCHANGED <<newAPIError, balance>>
    /\ UNCHANGED <<ctx, requestURL, showBody>>
    /\ UNCHANGED <<inbound, textRequest, relayInfo, settings, adaptor, priceData,
                   preConsumedQuota, userQuota, balance0, deferred, httpResp, usage,
                   errBefore, handler, applied>>

\* the error of DoRequest returned as a conversion failure
DoRequestFailedAsConvertFailed(cause) == NewError(Cause(cause), "ConvertRequestFailed")

\* line 153
DoRequestFailed(cause) ==
    NewOpenAIError(Cause(cause), "DoRequestFailed", StatusInternalServerError)

\* lines 146-154 and Adaptor.DoRequest: the URL, the headers, the HTTP call
DoRequest ==
    /\ pc = "DoRequest"
    /\ LET u == GetRequestURL(Val(adaptor), relayInfo) IN
         /\ adaptor' = Some(u.adaptor)
         /\ relayInfo' = u.info
         /\ requestURL' = Some(u.url)
         /\ IF u.err # ""
            THEN /\ Return(Some(DoRequestFailed(u.err)), Append(trace, "DoRequest"))
                 /\ UNCHANGED httpResp
            ELSE \/ /\ \E cause \in {"get access token", "do request"} :
                         Return(Some(DoRequestFailed(cause)), Append(trace, "DoRequest"))
                    /\ UNCHANGED httpResp
                 \/ \E resp \in Responses :
                      /\ httpResp' = Some(resp)
                      /\ trace' = Append(trace, "DoRequest")
                      /\ pc' = "Inspect"
                      /\ UNCHANGED <<newAPIError, balance>>
    /\ UNCHANGED <<ctx, showBody>>
    /\ UNCHANGED <<inbound, textRequest, settings, priceData, preConsumedQuota,
                   userQuota, balance0, deferred, statusCodeMappingStr, usage, errBefore,
                   handler, applied>>

\* lines 156-174
Inspect ==
    /\ pc = "Inspect"
    /\ IF httpResp # Nil
       THEN LET resp == Val(httpResp) IN
            /\ relayInfo' = [relayInfo EXCEPT
                                !.IsStream = PromoteIsStream(relayInfo.IsStream, resp)]
            /\ IF StatusIsError(resp)
               THEN LET r == RelayErrorHandler(resp, showBody) IN
                    /\ httpResp' = Some([resp EXCEPT !.closed = r.closed])
                    /\ IF r.panic
                       THEN /\ Panic(newAPIError, Append(trace, "RelayErrorHandler"))
                            /\ UNCHANGED errBefore
                       ELSE /\ errBefore' = Some(r.err)
                            /\ Return(Some(ResetStatusCode(r.err, statusCodeMappingStr)),
                                      trace \o <<"RelayErrorHandler", "ResetStatusCode">>)
               ELSE /\ pc' = "DoResponse"
                    /\ UNCHANGED <<httpResp, errBefore, newAPIError, balance, trace>>
       ELSE /\ pc' = "DoResponse"
            /\ UNCHANGED <<relayInfo, httpResp, errBefore, newAPIError, balance, trace>>
    /\ UNCHANGED <<ctx, requestURL, showBody>>
    /\ UNCHANGED <<inbound, textRequest, settings, adaptor, priceData, preConsumedQuota,
                   userQuota, balance0, deferred, statusCodeMappingStr, usage, handler,
                   applied>>

\* lines 176-187 and Adaptor.DoResponse.  While a streaming handler reads the
\* upstream and writes to the client, the client may go away: the request
\* context is then cancelled, and the handler ends as it ends otherwise, with
\* an error, with the usage so far, or with no usage.
DoResponse ==
    /\ pc = "DoResponse"
    /\ LET h == DoResponseHandler(Val(adaptor), relayInfo) IN
         /\ handler' = h
         /\ \/ ctx' = ctx
            \/ h # "" /\ relayInfo.IsStream /\ ctx' = "cancelled"
         /\ IF h = ""
            THEN /\ usage' = Some(NoUsage)
                 /\ trace' = Append(trace, "DoResponse")
                 /\ pc' = "Settle"
                 /\ UNCHANGED <<newAPIError, errBefore, balance>>
            ELSE \/ LET e == NewOpenAIError(Cause("response handler"), "BadResponseBody",
                                            StatusInternalServerError) IN
                    /\ errBefore' = Some(e)
                    /\ Return(Some(ResetStatusCode(e, statusCodeMappingStr)),
                              trace \o <<"DoResponse", "ResetStatusCode">>)
                    /\ UNCHANGED usage
                 \/ \E u \in HandlerUsages :
                      /\ usage' = Some(u)
                      /\ trace' = Append(trace, "DoResponse")
                      /\ pc' = "Settle"
                      /\ UNCHANGED <<newAPIError, errBefore, balance>>
    /\ UNCHANGED <<requestURL, showBody>>
    /\ UNCHANGED <<inbound, textRequest, relayInfo, settings, adaptor, priceData,
                   preConsumedQuota, userQuota, balance0, deferred, statusCodeMappingStr,
                   httpResp, applied>>

\* lines 189-200: usage.(*dto.Usage) panics on a nil interface (line 199), and
\* usageInfo.PromptTokens panics on a nil *dto.Usage (line 193)
Settle ==
    /\ pc = "Settle"
    /\ LET u == Val(usage) IN
       IF u.kind \in {"nil_interface", "nil_pointer"}
       THEN Panic(newAPIError, trace)
       ELSE /\ pc' = "returned"
            /\ newAPIError' = Nil
            /\ balance' = PostClaudeConsumeQuota(balance, relayInfo, u, preConsumedQuota,
                                                 priceData)
            /\ trace' = Append(trace, "PostClaudeConsumeQuota")
    /\ UNCHANGED <<ctx, requestURL, showBody>>
    /\ UNCHANGED <<inbound, textRequest, relayInfo, settings, adaptor, priceData,
                   preConsumedQuota, userQuota, balance0, deferred, statusCodeMappingStr,
                   httpResp, usage, errBefore, handler, applied>>

Next ==
    \/ Validate
    \/ MapModel
    \/ CountTokens
    \/ Price
    \/ Reserve
    \/ AcquireAdaptor
    \/ Transform
    \/ Convert
    \/ DoRequest
    \/ Inspect
    \/ DoResponse
    \/ Settle

Spec == Init /\ [][Next]_vars

-----------------------------------------------------------------------------
(* Properties of the pipeline                                               *)

Count(tr, x) == Cardinality({i \in 1..Len(tr) : tr[i] = x})

Has(tr, x) == \E i \in 1..Len(tr) : tr[i] = x

Before(tr, x, y) == \A i, j \in 1..Len(tr) : (tr[i] = x /\ tr[j] = y) => i < j

Exited == pc \in {"returned", "panicked"}

Reserved == Has(trace, "preConsumeQuota")

\* C1: once the reservation has succeeded, PostClaudeConsumeQuota and the refund
\* are never both executed, each is executed after the reservation, and exactly
\* one of them has been executed when the handler is left.
C1_ExactlyOneSettleOrRefund ==
    Reserved =>
        /\ Count(trace, "PostClaudeConsumeQuota") + Count(trace, "Refund") <= 1
        /\ Before(trace, "preConsumeQuota", "PostClaudeConsumeQuota")
        /\ Before(trace, "preConsumeQuota", "Refund")
        /\ Exited =>
             Count(trace, "PostClaudeConsumeQuota") + Count(trace, "Refund") = 1

\* C2: when the handler has returned a non-nil error, the user's balance is
\* what it was when the handler was entered.
C2_FailureRestoresBalance ==
    (pc = "returned" /\ newAPIError # Nil) => balance = balance0

C2_Witness ==
    /\ pc = "returned"
    /\ newAPIError # Nil
    /\ Reserved
    /\ preConsumedQuota > 0
    /\ Has(trace, "Refund")

InvalidInbound ==
    /\ inbound.bindOK
    /\ \/ inbound.Messages.isNil
       \/ inbound.Messages.len = 0
       \/ inbound.Model = <<>>

\* C3: a request with absent or empty messages, or an empty model, is rejected
\* with InvalidRequest and nothing else is done for it: no model mapping, token
\* count, pricing, reservation, adaptor call or upstream call.
C3_InvalidRequestRejectedFirst ==
    InvalidInbound =>
        /\ pc \in {"Validate", "returned"}
        /\ trace = <<>>
        /\ textRequest = Nil
        /\ adaptor = Nil
        /\ httpResp = Nil
        /\ balance = balance0
        /\ relayInfo.PromptTokens = 0
        /\ pc = "returned" =>
             /\ newAPIError # Nil
             /\ Val(newAPIError).errorCode = "InvalidRequest"

C3_Witness ==
    /\ pc = "returned"
    /\ inbound.bindOK
    /\ ~inbound.Messages.isNil
    /\ inbound.Messages.len = 0
    /\ inbound.Model # <<>>
    /\ newAPIError # Nil

\* C4: relayInfo.IsStream never changes from true to false.
C4_IsStreamMonotonic == [][relayInfo.IsStream => relayInfo'.IsStream]_vars

C4_Witness ==
    /\ pc = "DoResponse"
    /\ inbound.Stream
    /\ relayInfo.IsStream
    /\ ~Val(httpResp).sse

\* C5: DoResponse is invoked only for a response whose status is 200; for any
\* other status the handler runs RelayErrorHandler, then ResetStatusCode, and
\* returns that error with the reservation refunded, without DoResponse and
\* without settlement.
C5_DoResponseOnlyAfter200 ==
    /\ (pc = "DoResponse" \/ Has(trace, "DoResponse")) =>
          httpResp # Nil /\ Val(httpResp).StatusCode = StatusOK
    /\ (httpResp # Nil /\ Val(httpResp).StatusCode # StatusOK /\ pc # "Inspect") =>
          /\ pc = "returned"
          /\ newAPIError # Nil
          /\ errBefore # Nil
          /\ Val(errBefore).StatusCode = Val(httpResp).StatusCode
          /\ SubSeq(trace, Len(trace) - 3, Len(trace))
               = <<"DoRequest", "RelayErrorHandler", "ResetStatusCode", "Refund">>
          /\ ~Has(trace, "DoResponse")
          /\ ~Has(trace, "PostClaudeConsumeQuota")
          /\ balance = balance0

C5_Witness ==
    /\ pc = "returned"
    /\ httpResp # Nil
    /\ Val(httpResp).StatusCode = 429
    /\ Val(newAPIError).StatusCode = 503
    /\ Has(trace, "Refund")

\* C6: when the inbound max_tokens is zero, the reservation is computed with
\* the per-model default max_tokens in place of zero.
C6_DefaultMaxTokensBeforePricing ==
    (Reserved /\ inbound.MaxTokens = 0) =>
        preConsumedQuota =
            ModelPriceHelper(relayInfo.PromptTokens,
                             GetDefaultMaxTokens(settings, inbound.Model),
                             priceData.ModelRatio, priceData.CompletionRatio,
                             priceData.GroupRatio).ShouldPreConsumedQuota

ThinkingCase ==
    /\ pc = "Convert"
    /\ settings.ThinkingAdapterEnabled
    /\ HasSuffix(inbound.Model, "thinking")
    /\ inbound.Thinking = Nil

\* the request handed to the adaptor is model M, max_tokens mt, a thinking
\* block of budget b, temperature 1.0, top_p 0, and the upstream model is M
HandedToAdaptor(mt, b) ==
    /\ Val(textRequest).Model = TrimSuffix(inbound.Model, "thinking")
    /\ relayInfo.UpstreamModelName = TrimSuffix(inbound.Model, "thinking")
    /\ Val(textRequest).MaxTokens = mt
    /\ Val(textRequest).Thinking = Some([Type |-> "enabled", BudgetTokens |-> b])
    /\ Val(textRequest).Temperature = Some(TemperatureOne)
    /\ Val(textRequest).TopP = 0

UsageAbsentOrZero ==
    /\ usage # Nil
    /\ \/ Val(usage).kind \in {"nil_interface", "nil_pointer"}
       \/ Val(usage).PromptTokens = 0 /\ Val(usage).CompletionTokens = 0

\* C9: when DoResponse succeeds with an absent or zero-valued usage, the
\* handler still settles, billing the counted prompt tokens and no completion
\* tokens, and returns no error.
C9_AbsentUsageStillSettles ==
    (Exited /\ UsageAbsentOrZero) =>
        /\ pc = "returned"
        /\ newAPIError = Nil
        /\ Has(trace, "PostClaudeConsumeQuota")
        /\ balance0 - balance
             = relayInfo.PromptTokens * priceData.ModelRatio * priceData.GroupRatio

\* the adaptor reported no usage: DoResponse returned an error, or a nil usage
NoUsageReported == usage = Nil \/ Val(usage).kind \in {"nil_interface", "nil_pointer"}

\* C15: when the request context was cancelled while DoResponse was streaming,
\* the handler is left with exactly one of the refund and the settlement
\* executed, and with the refund of the full reservation when the adaptor
\* reported no usage, whether or not DoResponse returned an error.
C15_CancellationRefundsOrSettles ==
    (Exited /\ ctx = "cancelled") =>
        /\ Count(trace, "PostClaudeConsumeQuota") + Count(trace, "Refund") = 1
        /\ NoUsageReported => (Has(trace, "Refund") /\ balance = balance0)

\* C16: on a Vertex channel whose service-account JSON has no project_id, once
\* the adaptor's DoRequest has been called the handler has returned a
\* ConvertRequestFailed error, with the reservation refunded and no upstream
\* response obtained.
C16_MissingProjectIdFailsLocally ==
    (relayInfo.ApiType = "vertex" /\ relayInfo.ApiKey = "no_project_id"
       /\ Has(trace, "DoRequest")) =>
        /\ Has(trace, "Init")
        /\ pc = "returned"
        /\ newAPIError # Nil
        /\ Val(newAPIError).errorCode = "ConvertRequestFailed"
        /\ httpResp = Nil
        /\ Has(trace, "Refund")
        /\ balance = balance0

\* the request did not ask for a stream, the upstream answered 200 with an
\* event stream, and the handler has looked at the response
SSEPromotionCase ==
    /\ ~inbound.Stream
    /\ httpResp # Nil
    /\ Val(httpResp).StatusCode = StatusOK
    /\ Val(httpResp).sse
    /\ pc # "Inspect"

\* C17: in that case IsStream is true from before DoResponse on, DoResponse
\* dispatches to the streaming handler of the adaptor's RequestMode, and when
\* DoResponse has returned a usage the handler ends with exactly one
\* settlement, no refund and no error.
C17_SSEPromotion ==
    SSEPromotionCase =>
        /\ relayInfo.IsStream
        /\ Has(trace, "DoResponse") =>
              LET mode == Val(adaptor).RequestMode IN
              /\ mode \in {RequestModeClaude, RequestModeGemini, RequestModeLlama}
              /\ mode = RequestModeClaude => handler = "claude.ClaudeStreamHandler"
              /\ mode = RequestModeGemini => handler = "gemini.GeminiChatStreamHandler"
              /\ mode = RequestModeLlama => handler = "openai.OaiStreamHandler"
        /\ (Exited /\ usage # Nil /\ Val(usage).kind = "value") =>
              /\ pc = "returned"
              /\ newAPIError = Nil
              /\ Count(trace, "PostClaudeConsumeQuota") = 1
              /\ Count(trace, "Refund") = 0

C17_Witness ==
    /\ SSEPromotionCase
    /\ pc = "returned"
    /\ newAPIError = Nil
    /\ handler = "claude.ClaudeStreamHandler"
    /\ Has(trace, "PostClaudeConsumeQuota")

\* the calls of a request that passes every stage, in the order of the stages:
\* map model, count tokens, price, reserve, acquire the adaptor and Init,
\* convert, upstream call, DoResponse, settle (validation makes no call)
StageCalls ==
    <<"ModelMappedHelper", "CountTokenClaudeRequest", "ModelPriceHelper",
      "preConsumeQuota", "GetAdaptor", "Init", "ConvertClaudeRequest", "Marshal",
      "DoRequest", "DoResponse", "PostClaudeConsumeQuota">>

Prefix(s, n) == SubSeq(s, 1, n)

IsPrefix(s, u) == Len(s) <= Len(u) /\ s = Prefix(u, Len(s))

\* the calls made so far, without the refund of the deferred closure
CallsMade == SelectSeq(trace, LAMBDA x : x # "Refund")

\* C21: the calls made are a prefix of the calls of the stages in their order,
\* ended, when a stage failed, by that stage's failed call or its error
\* handling; and a returned error has the error code of the stage that was
\* reached last: InvalidRequest, ChannelModelMappedError, CountTokenFailed,
\* ModelPriceError, InsufficientUserQuota, InvalidApiType, ConvertRequestFailed,
\* DoRequestFailed with status 500, the upstream's error, the response
\* handler's error.
C21_StageOrder ==
    LET calls == CallsMade
        n == Len(calls)
        last == IF n = 0 THEN "" ELSE calls[n]
        failed == pc = "returned" /\ newAPIError # Nil
        code == Val(newAPIError).errorCode
    IN  /\ \/ IsPrefix(calls, StageCalls)
           \/ calls = Prefix(StageCalls, 3) \o <<"preConsumeQuotaFailed">>
           \/ calls = Prefix(StageCalls, 9) \o <<"RelayErrorHandler", "ResetStatusCode">>
           \/ calls = Prefix(StageCalls, 10) \o <<"ResetStatusCode">>
        /\ Has(trace, "Refund") => (failed /\ trace[Len(trace)] = "Refund")
        /\ (pc = "returned" /\ newAPIError = Nil) => calls = StageCalls
        /\ failed =>
              /\ n = 0 => code = "InvalidRequest"
              /\ last = "ModelMappedHelper" => code = "ChannelModelMappedError"
              /\ last = "CountTokenClaudeRequest" => code = "CountTokenFailed"
              /\ last = "ModelPriceHelper" => code = "ModelPriceError"
              /\ last = "preConsumeQuotaFailed" => code = "InsufficientUserQuota"
              /\ last = "GetAdaptor" => code = "InvalidApiType"
              /\ last = "Marshal" => code = "ConvertRequestFailed"
              /\ last = "DoRequest" =>
                    /\ code = "DoRequestFailed"
                    /\ Val(newAPIError).StatusCode = StatusInternalServerError
              /\ (last = "ResetStatusCode" /\ calls[n - 1] = "RelayErrorHandler") =>
                    /\ httpResp # Nil
                    /\ Val(errBefore).StatusCode = Val(httpResp).StatusCode
                    /\ Val(newAPIError)
                         = ResetStatusCode(Val(errBefore), statusCodeMappingStr)
              /\ (last = "ResetStatusCode" /\ calls[n - 1] = "DoResponse") =>
                    code = "BadResponseBody"
              /\ last \in {"", "ModelMappedHelper", "CountTokenClaudeRequest",
                            "ModelPriceHelper", "preConsumeQuotaFailed", "GetAdaptor",
                            "Marshal", "DoRequest", "ResetStatusCode"}

C21_Witness ==
    /\ pc = "returned"
    /\ newAPIError # Nil
    /\ Val(newAPIError).errorCode = "DoRequestFailed"
    /\ trace = Prefix(StageCalls, 9) \o <<"Refund">>

-----------------------------------------------------------------------------
(* The thinking adapter on its own: lines 105-125 applied to a request,     *)
(* and applied again to what they produced.                                 *)

\* the variables of the pipeline the function specifications leave alone
PipelineIdle ==
    /\ adaptor = Nil
    /\ priceData = NoPrice
    /\ preConsumedQuota = 0
    /\ userQuota = 0
    /\ balance = 0
    /\ balance0 = 0
    /\ deferred = FALSE
    /\ httpResp = Nil
    /\ usage = Nil
    /\ handler = ""
    /\ trace = <<>>
    /\ ctx = "live"
    /\ requestURL = Nil
    /\ showBody = FALSE

ThinkingBodies ==
    { b \in Bodies : b.bindOK /\ b.Messages.len >= 1 /\ b.Model # <<>> }

InitThinking ==
    /\ pc = "ThinkingTransform"
    /\ inbound \in ThinkingBodies
    /\ textRequest = Some(BoundRequest(inbound))
    /\ \E ch \in Channels : ch.ApiKey = "full" /\ ch.ApiVersion = "global"
                            /\ relayInfo = GenRelayInfoClaude(inbound, ch)
    /\ settings \in SettingsChoices
    /\ statusCodeMappingStr = <<>>
    /\ newAPIError = Nil
    /\ errBefore = Nil
    /\ applied = 0
    /\ PipelineIdle

ApplyThinkingTransform ==
    /\ pc = "ThinkingTransform"
    /\ applied < MaxApplications
    /\ LET r == ThinkingTransform(Val(textRequest), relayInfo, settings) IN
         /\ textRequest' = Some(r.textRequest)
         /\ relayInfo' = r.relayInfo
    /\ applied' = applied + 1
    /\ UNCHANGED <<ctx, requestURL, showBody>>
    /\ UNCHANGED <<pc, inbound, settings, adaptor, priceData, preConsumedQuota,
                   userQuota, balance, balance0, deferred, statusCodeMappingStr,
                   httpResp, usage, newAPIError, errBefore, handler, trace>>

NextThinking == ApplyThinkingTransform

SpecThinking == InitThinking /\ [][NextThinking]_vars

TransformedFields(req) ==
    <<req.Model, req.MaxTokens, req.Thinking, req.Temperature, req.TopP>>

\* C8, as claimed: for every model name ending in -thinking, applying the
\* transform to its own output changes none of model, max_tokens, the thinking
\* budget, temperature and top_p.
C8_IdempotentAsClaimed ==
    [][(applied >= 1 /\ applied' = applied + 1 /\ HasSuffix(inbound.Model, "thinking"))
         => TransformedFields(Val(textRequest')) = TransformedFields(Val(textRequest))]_vars

\* C8, amended: the same, for every model name ending in -thinking whose name
\* without that suffix does not itself end in -thinking.
C8_Idempotent ==
    [][(/\ applied >= 1
        /\ applied' = applied + 1
        /\ HasSuffix(inbound.Model, "thinking")
        /\ ~HasSuffix(TrimSuffix(inbound.Model, "thinking"), "thinking"))
         => TransformedFields(Val(textRequest')) = TransformedFields(Val(textRequest))]_vars

C8_Witness ==
    /\ pc = "ThinkingTransform"
    /\ applied = 2
    /\ settings.ThinkingAdapterEnabled
    /\ inbound.Model = <<"claude", "sonnet", "4", "20250514", "thinking">>
    /\ inbound.Thinking = Nil
    /\ inbound.TopP # 0
    /\ Val(textRequest).Model = <<"claude", "sonnet", "4", "20250514">>
    /\ Val(textRequest).Thinking # Nil
    /\ Val(textRequest).TopP = 0

-----------------------------------------------------------------------------
(* ResetStatusCode on its own: every error, every mapping string            *)

MappingKeys == { <<"2", "0", "0">>, <<"4", "2", "9">>, <<"5", "0", "0">>,
                 <<"0", "4", "2", "9">> }

MappingTargets == { <<"5", "0", "3">>, <<"4", "2", "9">>, <<"a", "b", "c">> }

Tables == UNION { [ks -> MappingTargets] : ks \in SUBSET MappingKeys }

MappingStrings ==
    { MappingOf(k, NoTable) : k \in {"empty", "braces", "invalid", "wrong_type"} } \cup
    { MappingOf("object", t) : t \in Tables }

ResetErrors ==
    { NewOpenAIError(Cause("response handler"), "BadResponseBody", sc) :
        sc \in {StatusOK} \cup ErrorStatusCodes }

InitReset ==
    /\ pc = "ResetStatusCode"
    /\ inbound \in { b \in Bodies : ~b.bindOK }
    /\ textRequest = Nil
    /\ \E ch \in Channels : ch.ApiKey = "full" /\ ch.ApiVersion = "global"
                            /\ relayInfo = GenRelayInfoClaude(inbound, ch)
    /\ settings \in { c \in SettingsChoices :
                        c.ThinkingAdapterEnabled
                        /\ c.ThinkingAdapterBudgetTokensPercentage = 80 }
    /\ statusCodeMappingStr \in MappingStrings
    /\ newAPIError \in { Some(e) : e \in ResetErrors }
    /\ errBefore = Nil
    /\ applied = 0
    /\ PipelineIdle

ApplyResetStatusCode ==
    /\ pc = "ResetStatusCode"
    /\ applied < MaxApplications
    /\ errBefore' = newAPIError
    /\ newAPIError' = Some(ResetStatusCode(Val(newAPIError), statusCodeMappingStr))
    /\ applied' = applied + 1
    /\ UNCHANGED <<ctx, requestURL, showBody>>
    /\ UNCHANGED <<pc, inbound, textRequest, relayInfo, settings, adaptor, priceData,
                   preConsumedQuota, userQuota, balance, balance0, deferred,
                   statusCodeMappingStr, httpResp, usage, handler, trace>>

NextReset == ApplyResetStatusCode

SpecReset == InitReset /\ [][NextReset]_vars

\* the status codes a decimal string can denote here
DenotableCodes == 0..599

\* C10: ResetStatusCode sets the status code to the table's target exactly
\* when the current status is not 200 and the mapping string is a table with
\* an entry keyed by the decimal string of the current status; otherwise
\* (status 200, mapping "", "{}" or not a table, no such entry) it leaves the
\* status as it was; and it changes no other field of the error.
C10_ResetStatusCodeRewrites ==
    applied >= 1 =>
        LET before == Val(errBefore)
            after == Val(newAPIError)
            str == statusCodeMappingStr
            entries == IF str.kind = "object"
                       THEN { k \in DOMAIN str.table :
                                \E n \in DenotableCodes :
                                    n = before.StatusCode /\ Itoa(n) = k }
                       ELSE {}
        IN  /\ after = [before EXCEPT !.StatusCode = after.StatusCode]
            /\ IF before.StatusCode # StatusOK /\ entries # {}
               THEN \E k \in entries, n \in DenotableCodes :
                        Itoa(n) = str.table[k] /\ after.StatusCode = n
               ELSE after.StatusCode = before.StatusCode

\* the table of the mapping string has an entry keyed by the decimal string of
\* status code n
HasEntryFor(str, n) == str.kind = "object" /\ Itoa(n) \in DOMAIN str.table

\* C11: when the status code a ResetStatusCode call produced has no entry of
\* its own in the table, the next ResetStatusCode call with the same table
\* leaves the error as it is.
C11_RemapIdempotent ==
    (applied >= 2 /\ ~HasEntryFor(statusCodeMappingStr, Val(errBefore).StatusCode))
        => newAPIError = errBefore

C11_Witness ==
    /\ pc = "ResetStatusCode"
    /\ applied = 2
    /\ HasEntryFor(statusCodeMappingStr, 429)
    /\ statusCodeMappingStr.table[Itoa(429)] = Itoa(503)
    /\ Val(errBefore).StatusCode = 503
    /\ Val(newAPIError).StatusCode = 503

-----------------------------------------------------------------------------
(* The error handlers on their own: every response, both values of          *)
(* showBodyWhenFail                                                         *)

NormalizerResponses ==
    { [StatusCode |-> sc, sse |-> FALSE, body |-> b, hasRequest |-> hr,
       closed |-> FALSE] :
        sc \in {StatusOK} \cup ErrorStatusCodes,
        b \in ErrorBodies \cup {"error_other_message"},
        hr \in BOOLEAN }

InitNormalize ==
    /\ pc = "RelayErrorHandler"
    /\ inbound \in { b \in Bodies : ~b.bindOK }
    /\ textRequest = Nil
    /\ \E ch \in Channels : ch.ApiKey = "full" /\ ch.ApiVersion = "global"
                            /\ relayInfo = GenRelayInfoClaude(inbound, ch)
    /\ settings \in { c \in SettingsChoices :
                        c.ThinkingAdapterEnabled
                        /\ c.ThinkingAdapterBudgetTokensPercentage = 80 }
    /\ adaptor = Nil
    /\ priceData = NoPrice
    /\ preConsumedQuota = 0
    /\ userQuota = 0
    /\ balance = 0
    /\ balance0 = 0
    /\ deferred = FALSE
    /\ statusCodeMappingStr = <<>>
    /\ httpResp \in { Some(r) : r \in NormalizerResponses }
    /\ usage = Nil
    /\ newAPIError = Nil
    /\ errBefore = Nil
    /\ handler = ""
    /\ applied = 0
    /\ trace = <<>>
    /\ ctx = "live"
    /\ requestURL = Nil
    /\ showBody \in BOOLEAN

\* the call leaves r: the response as r left it, and r.err or a panic
Normalized(name, r) ==
    /\ handler' = name
    /\ httpResp' = Some([Val(httpResp) EXCEPT !.closed = r.closed])
    /\ pc' = IF r.panic THEN "panicked" ELSE "returned"
    /\ newAPIError' = IF r.panic THEN Nil ELSE Some(r.err)
    /\ applied' = applied + 1
    /\ UNCHANGED <<inbound, textRequest, relayInfo, settings, adaptor, priceData,
                   preConsumedQuota, userQuota, balance, balance0, deferred,
                   statusCodeMappingStr, usage, errBefore, trace, ctx, requestURL,
                   showBody>>

ApplyRelayErrorHandler ==
    /\ pc = "RelayErrorHandler"
    /\ Normalized("RelayErrorHandler", RelayErrorHandler(Val(httpResp), showBody))

ApplyRelayErrorHandlerLegacy ==
    /\ pc = "RelayErrorHandler"
    /\ Normalized("RelayErrorHandlerLegacy",
                  RelayErrorHandlerLegacy(Val(httpResp), showBody))

NextNormalize ==
    \/ ApplyRelayErrorHandler
    \/ ApplyRelayErrorHandlerLegacy

SpecNormalize == InitNormalize /\ [][NextNormalize]_vars

\* C12: for a body that was read, RelayErrorHandler returns the parsed error
\* when the body decodes to an envelope with a message; a bad-response-status
\* cause that holds the raw body exactly when showBodyWhenFail is true when the
\* body does not decode; and a bad-response-status error otherwise.
C12_Classification ==
    (pc = "returned" /\ handler = "RelayErrorHandler"
       /\ Val(httpResp).body # "unreadable") =>
        LET resp == Val(httpResp)
            e == Val(newAPIError)
            parsed == ParseErrorBody(resp.body)
        IN  /\ (parsed.ok /\ parsed.message # "") =>
                  /\ e.Err = Cause(parsed.message)
                  /\ e.errorCode = parsed.code
                  /\ e.ErrorType = "openai_error"
            /\ ~parsed.ok =>
                  /\ e.Err.kind = "bad response status code"
                  /\ e.Err.code = resp.StatusCode
                  /\ e.Err.body = (IF showBody THEN resp.body ELSE "")
                  /\ e.errorCode = ""
            /\ (parsed.ok /\ parsed.message = "") =>
                  /\ e.errorCode = "BadResponseStatusCode"
                  /\ e.Err.kind \notin {"nil", "bad response status code"}
                  /\ e.ErrorType = "openai_error"

C12_Witness ==
    /\ pc = "returned"
    /\ handler = "RelayErrorHandler"
    /\ Val(httpResp).body = "not_json"
    /\ showBody
    /\ Val(newAPIError).Err.body = "not_json"

\* C13: every error a handler returns has the status code of the response, and
\* for a body that could not be read it is a bad-response-status error with a
\* cause.
C13_StatusKeptAndOpaqueComplete ==
    (pc = "returned" /\ applied >= 1) =>
        LET resp == Val(httpResp)
            e == Val(newAPIError)
        IN  /\ e.StatusCode = resp.StatusCode
            /\ resp.body = "unreadable" =>
                  /\ e.Err # NoCause
                  /\ e.errorCode = "BadResponseStatusCode"

\* C14: when a handler has returned, the response body has been closed.
C14_ResponseClosed ==
    (pc = "returned" /\ applied >= 1) => Val(httpResp).closed

-----------------------------------------------------------------------------
(* Adaptor.GetRequestURL on its own: an adaptor after Init, called again    *)
(* and again with the info it was given                                     *)

URLModelNames ==
    (ModelNames \ {<<>>}) \cup
    { <<"gemini", "2", "thinking", "128">>,
      <<"gemini", "pro", "nothinking", "thinking">>,
      <<"llama", "3">> }

InitURL ==
    /\ pc = "GetRequestURL"
    /\ inbound \in { b \in Bodies : ~b.bindOK }
    /\ textRequest = Nil
    /\ \E m \in URLModelNames, st \in BOOLEAN, ch \in Channels :
         /\ ch.ApiType = "vertex"
         /\ relayInfo = [GenRelayInfoClaude(inbound, ch) EXCEPT
                            !.OriginModelName = m, !.UpstreamModelName = m,
                            !.IsStream = st]
    /\ settings \in { c \in SettingsChoices :
                        c.ThinkingAdapterEnabled
                        /\ c.ThinkingAdapterBudgetTokensPercentage = 80 }
    /\ adaptor = Some(AdaptorInit(NewAdaptor, relayInfo))
    /\ priceData = NoPrice
    /\ preConsumedQuota = 0
    /\ userQuota = 0
    /\ balance = 0
    /\ balance0 = 0
    /\ deferred = FALSE
    /\ statusCodeMappingStr = <<>>
    /\ httpResp = Nil
    /\ usage = Nil
    /\ newAPIError = Nil
    /\ errBefore = Nil
    /\ handler = ""
    /\ applied = 0
    /\ trace = <<>>
    /\ ctx = "live"
    /\ requestURL = Nil
    /\ showBody = FALSE

ApplyGetRequestURL ==
    /\ pc = "GetRequestURL"
    /\ applied < MaxApplications
    /\ LET u == GetRequestURL(Val(adaptor), relayInfo) IN
         /\ adaptor' = Some(u.adaptor)
         /\ relayInfo' = u.info
         /\ requestURL' = Some(u.url)
    /\ applied' = applied + 1
    /\ UNCHANGED <<pc, inbound, textRequest, settings, priceData, preConsumedQuota,
                   userQuota, balance, balance0, deferred, statusCodeMappingStr,
                   httpResp, usage, newAPIError, errBefore, handler, trace, ctx,
                   showBody>>

NextURL == ApplyGetRequestURL

SpecURL == InitURL /\ [][NextURL]_vars

\* C18: a call of GetRequestURL changes no field of info and nothing of the
\* adaptor, and a second call returns the URL the first returned.
C18_GetRequestURLPure ==
    [][applied' = applied + 1 =>
         /\ relayInfo' = relayInfo
         /\ adaptor' = adaptor
         /\ applied >= 1 => requestURL' = requestURL]_vars

-----------------------------------------------------------------------------
(* service/error.go: ClaudeErrorWrapper and TaskErrorWrapper.  An error     *)
(* text is the sequence of its words; the phrase "get file base64 from url" *)
(* counts as one word.                                                      *)

Words == { "get file base64 from url", "Post", "dial", "timeout",
           "https://upstream.internal/v1", "10.0.0.5:443" }

\* the words that name an upstream endpoint
EndpointWords == { "https://upstream.internal/v1", "10.0.0.5:443" }

ErrorTexts == UNION { [1..n -> Words] : n \in 1..MaxTextLen }

\* strings.ToLower
ToLower(text) == [i \in 1..Len(text) |-> IF text[i] = "Post" THEN "post" ELSE text[i]]

\* strings.Contains(word, sub) for the lower-case words and the three
\* substrings the wrappers look for
WordContains(word, sub) ==
    \/ word = sub
    \/ sub = "http" /\ word = "https://upstream.internal/v1"

\* strings.Contains(text, sub)
ContainsText(text, sub) == \E i \in 1..Len(text) : WordContains(text[i], sub)

\* the text the wrappers put in place of a transport message
GenericFailure == <<"request to the upstream address failed">>

MentionsTransport(lowerText) ==
    \/ ContainsText(lowerText, "post")
    \/ ContainsText(lowerText, "dial")
    \/ ContainsText(lowerText, "http")

\* lines 59-76
ClaudeErrorWrapper(text, code, statusCode) ==
    LET lowerText == ToLower(text)
        message == IF ~HasPrefix(lowerText, "get file base64 from url")
                      /\ MentionsTransport(lowerText)
                   THEN GenericFailure ELSE text
    IN  [Error |-> [Message |-> message, Type |-> "new_api_error"],
         StatusCode |-> statusCode]

\* lines 194-210
TaskErrorWrapper(text, code, statusCode) ==
    LET lowerText == ToLower(text)
        message == IF MentionsTransport(lowerText) THEN GenericFailure ELSE text
    IN  [Code |-> code, Message |-> message, StatusCode |-> statusCode,
         Error |-> text]

InitWrap ==
    /\ pc = "ErrorWrapper"
    /\ inbound \in { b \in Bodies : ~b.bindOK }
    /\ textRequest = Nil
    /\ \E ch \in Channels : ch.ApiKey = "full" /\ ch.ApiVersion = "global"
                            /\ relayInfo = GenRelayInfoClaude(inbound, ch)
    /\ settings \in { c \in SettingsChoices :
                        c.ThinkingAdapterEnabled
                        /\ c.ThinkingAdapterBudgetTokensPercentage = 80 }
    /\ statusCodeMappingStr = <<>>
    /\ newAPIError = Nil
    /\ errBefore \in { Some(text) : text \in ErrorTexts }
    /\ applied = 0
    /\ PipelineIdle

\* the wrapper name was given the error text held in errBefore and returned r
Wrapped(name, r) ==
    /\ handler' = name
    /\ newAPIError' = Some(r)
    /\ pc' = "returned"
    /\ applied' = applied + 1
    /\ UNCHANGED <<inbound, textRequest, relayInfo, settings, adaptor, priceData,
                   preConsumedQuota, userQuota, balance, balance0, deferred,
                   statusCodeMappingStr, httpResp, usage, errBefore, trace, ctx,
                   requestURL, showBody>>

ApplyClaudeErrorWrapper ==
    /\ pc = "ErrorWrapper"
    /\ Wrapped("ClaudeErrorWrapper",
               ClaudeErrorWrapper(Val(errBefore), "do_request_failed",
                                  StatusInternalServerError))

ApplyTaskErrorWrapper ==
    /\ pc = "ErrorWrapper"
    /\ Wrapped("TaskErrorWrapper",
               TaskErrorWrapper(Val(errBefore), "do_request_failed",
                                StatusInternalServerError))

NextWrap ==
    \/ ApplyClaudeErrorWrapper
    \/ ApplyTaskErrorWrapper

SpecWrap == InitWrap /\ [][NextWrap]_vars

MentionsEndpoint(text) == \E i \in 1..Len(text) : text[i] \in EndpointWords

\* C19: no field of the error a wrapper returns holds text that names an
\* upstream endpoint, whatever the text of the error it was given.
C19_NoEndpointInReturnedError ==
    (pc = "returned" /\ applied >= 1) =>
        LET r == Val(newAPIError) IN
        /\ handler = "ClaudeErrorWrapper" => ~MentionsEndpoint(r.Error.Message)
        /\ handler = "TaskErrorWrapper" =>
              /\ ~MentionsEndpoint(r.Message)
              /\ ~MentionsEndpoint(r.Error)

-----------------------------------------------------------------------------
(* Concurrent invocations of ClaudeHelper for one user.  Each invocation is *)
(* reduced to its steps on the user's balance: the reservation (lines       *)
(* 82-92) and the way it is left (lines 88-92 and 199).  The variables that *)
(* are locals of ClaudeHelper hold one value for each invocation; the       *)
(* balance is the one row of the ledger.  The ledger executes each of its   *)
(* operations under the user's row lock, so each is one step.               *)

Requests == 1..MaxRequests

\* what the invocations ask for: max_tokens of 0 or 3 with 7 prompt tokens
ConcurrentPrices == { ModelPriceHelper(7, mt, 1, 1, 1) : mt \in {0, 3} }

ConcurrentBalances == {10, 15}

\* the locals a closure of invocation r captured are those of r
OfAnotherInvocation(locals, r) == locals[1]

OfOwnInvocation(locals, r) == locals[r]

InitConcurrent ==
    /\ pc = [r \in Requests |-> "Reserve"]
    /\ inbound \in { b \in Bodies : ~b.bindOK }
    /\ textRequest = Nil
    /\ relayInfo = [r \in Requests |-> [UnsetInfo EXCEPT !.PromptTokens = 7]]
    /\ settings \in { c \in SettingsChoices :
                        c.ThinkingAdapterEnabled
                        /\ c.ThinkingAdapterBudgetTokensPercentage = 80 }
    /\ adaptor = Nil
    /\ priceData \in [Requests -> ConcurrentPrices]
    /\ preConsumedQuota = [r \in Requests |-> 0]
    /\ userQuota = [r \in Requests |-> 0]
    /\ balance \in ConcurrentBalances
    /\ balance0 = balance
    /\ deferred = [r \in Requests |-> FALSE]
    /\ statusCodeMappingStr = <<>>
    /\ httpResp = Nil
    /\ usage = [r \in Requests |-> Nil]
    /\ newAPIError = [r \in Requests |-> Nil]
    /\ errBefore = Nil
    /\ handler = ""
    /\ applied = 0
    /\ trace = <<>>
    /\ ctx = "live"
    /\ requestURL = Nil
    /\ showBody = FALSE

\* invocation r leaves with the result e: the deferred closure runs
ReturnOf(r, e) ==
    /\ pc' = [pc EXCEPT ![r] = "returned"]
    /\ newAPIError' = [newAPIError EXCEPT ![r] = e]
    /\ balance' = IF RefundFires(deferred[r], e)
                  THEN returnPreConsumedQuota(balance,
                                              OfOwnInvocation(preConsumedQuota, r))
                  ELSE balance

\* lines 47-80: invocation r fails before it reserves
FailBeforeReserveOf(r) ==
    /\ pc[r] = "Reserve"
    /\ ReturnOf(r, Some(NewError(Cause("count token"), "CountTokenFailed")))
    /\ UNCHANGED <<inbound, textRequest, relayInfo, settings, adaptor, priceData,
                   preConsumedQuota, userQuota, balance0, deferred,
                   statusCodeMappingStr, httpResp, usage, errBefore, handler, applied,
                   trace, ctx, requestURL, showBody>>

\* lines 82-92
ReserveOf(r) ==
    /\ pc[r] = "Reserve"
    /\ LET q == preConsumeQuota(priceData[r].ShouldPreConsumedQuota, balance) IN
       IF ~q.ok
       THEN /\ pc' = [pc EXCEPT ![r] = "returned"]
            /\ newAPIError' = [newAPIError EXCEPT
                                  ![r] = Some(NewError(Cause("quota"),
                                                       "InsufficientUserQuota"))]
            /\ UNCHANGED <<balance, preConsumedQuota, userQuota, deferred>>
       ELSE /\ preConsumedQuota' = [preConsumedQuota EXCEPT ![r] = q.preConsumedQuota]
            /\ userQuota' = [userQuota EXCEPT ![r] = q.userQuota]
            /\ balance' = q.balance
            /\ deferred' = [deferred EXCEPT ![r] = TRUE]
            /\ pc' = [pc EXCEPT ![r] = "InFlight"]
            /\ UNCHANGED newAPIError
    /\ UNCHANGED <<inbound, textRequest, relayInfo, settings, adaptor, priceData,
                   balance0, statusCodeMappingStr, httpResp, usage, errBefore, handler,
                   applied, trace, ctx, requestURL, showBody>>

\* lines 94-187: invocation r fails after it reserved
FailAfterReserveOf(r) ==
    /\ pc[r] = "InFlight"
    /\ ReturnOf(r, Some(NewOpenAIError(Cause("do request"), "DoRequestFailed",
                                       StatusInternalServerError)))
    /\ UNCHANGED <<inbound, textRequest, relayInfo, settings, adaptor, priceData,
                   preConsumedQuota, userQuota, balance0, deferred,
                   statusCodeMappingStr, httpResp, usage, errBefore, handler, applied,
                   trace, ctx, requestURL, showBody>>

\* lines 178-200: DoResponse returned a usage to invocation r
SettleOf(r) ==
    /\ pc[r] = "InFlight"
    /\ \E u \in HandlerUsages :
         /\ usage' = [usage EXCEPT ![r] = Some(u)]
         /\ IF u.kind \in {"nil_interface", "nil_pointer"}
            THEN /\ pc' = [pc EXCEPT ![r] = "panicked"]
                 /\ UNCHANGED <<balance, newAPIError>>
            ELSE /\ pc' = [pc EXCEPT ![r] = "returned"]
                 /\ newAPIError' = [newAPIError EXCEPT ![r] = Nil]
                 /\ balance' = PostClaudeConsumeQuota(
                                   balance, OfOwnInvocation(relayInfo, r), u,
                                   OfOwnInvocation(preConsumedQuota, r),
                                   OfOwnInvocation(priceData, r))
    /\ UNCHANGED <<inbound, textRequest, relayInfo, settings, adaptor, priceData,
                   preConsumedQuota, userQuota, balance0, deferred,
                   statusCodeMappingStr, httpResp, errBefore, handler, applied, trace,
                   ctx, requestURL, showBody>>

NextConcurrent ==
    \E r \in Requests :
        \/ FailBeforeReserveOf(r)
        \/ ReserveOf(r)
        \/ FailAfterReserveOf(r)
        \/ SettleOf(r)

SpecConcurrent == InitConcurrent /\ [][NextConcurrent]_vars

RECURSIVE SumOver(_, _)
SumOver(f, S) == IF S = {} THEN 0
                 ELSE LET x == CHOOSE y \in S : TRUE IN f[x] + SumOver(f, S \ {x})

\* invocation r was settled: it returned no error after a reservation
Settled(r) == pc[r] = "returned" /\ deferred[r] /\ newAPIError[r] = Nil

\* the reservation invocation r still holds
Held == [r \in Requests |->
            IF deferred[r] /\ pc[r] # "returned" THEN preConsumedQuota[r] ELSE 0]

\* what invocation r was charged
Charged == [r \in Requests |->
               IF Settled(r) THEN ActualQuota(relayInfo[r], Val(usage[r]), priceData[r])
               ELSE 0]

FailedBeforeOrAtReservation ==
    /\ pc = "returned"
    /\ newAPIError # Nil
    /\ ~Reserved

\* C23: when the request fails before or at the reservation (validation, model
\* mapping, token count, pricing, or preConsumeQuota returning an error), no
\* refund and no settlement is executed for it and nothing was taken from or
\* given to the balance; a refund is only ever executed after a reservation
\* that succeeded.
C23_NoRefundWithoutReservation ==
    /\ FailedBeforeOrAtReservation =>
          /\ ~Has(trace, "Refund")
          /\ ~Has(trace, "PostClaudeConsumeQuota")
          /\ ~deferred
          /\ balance = balance0
    /\ Has(trace, "Refund") => (Reserved /\ deferred)

C23_Witness ==
    /\ FailedBeforeOrAtReservation
    /\ Has(trace, "preConsumeQuotaFailed")
    /\ balance0 > 0
    /\ ~Has(trace, "Refund")

\* what the handler that was not applied returns for the same response
OtherHandlerOutcome ==
    LET resp == [Val(httpResp) EXCEPT !.closed = FALSE]
    IN  IF handler = "RelayErrorHandler"
        THEN RelayErrorHandlerLegacy(resp, showBody)
        ELSE RelayErrorHandler(resp, showBody)

\* C24: RelayErrorHandler and RelayErrorHandlerLegacy are observationally
\* equivalent: for every response (any status, any body, readable or not, with
\* or without an attached request) and every showBodyWhenFail, the one that was
\* applied has returned, the other returns for the same response, and the two
\* errors have the same status code, error type, error code and cause and the
\* response is left in the same open or closed state.
C24_HandlersEquivalent ==
    (applied >= 1 /\ handler \in {"RelayErrorHandler", "RelayErrorHandlerLegacy"}) =>
        LET other == OtherHandlerOutcome
        IN  /\ pc = "returned"
            /\ ~other.panic
            /\ Val(newAPIError).StatusCode = other.err.StatusCode
            /\ Val(newAPIError).ErrorType = other.err.ErrorType
            /\ Val(newAPIError).errorCode = other.err.errorCode
            /\ Val(newAPIError).Err = other.err.Err
            /\ Val(httpResp).closed = other.closed

\* the target string the table holds for status code n, as an option
TargetFor(str, n) ==
    IF HasEntryFor(str, n) THEN Some(str.table[Itoa(n)]) ELSE Nil

\* s is the decimal string of an integer
IsDecimalInteger(s) == \E n \in DenotableCodes : Itoa(n) = s

\* C25: after ResetStatusCode the status code is its original value or the
\* integer that the table's target string for that code denotes; a target
\* string that is not a decimal integer leaves the status code unchanged, so
\* it is never set to 0; and a status of 200 stays 200.
C25_ResetNeverInventsStatus ==
    (pc = "ResetStatusCode" /\ applied >= 1) =>
        LET before == Val(errBefore).StatusCode
            after == Val(newAPIError).StatusCode
            target == TargetFor(statusCodeMappingStr, before)
        IN  /\ \/ after = before
               \/ /\ target # Nil
                  /\ IsDecimalInteger(Val(target))
                  /\ Itoa(after) = Val(target)
            /\ (target # Nil /\ ~IsDecimalInteger(Val(target))) => after = before
            /\ before = StatusOK => after = StatusOK

\* C26: with the thinking adapter enabled, for a request whose model ends in
\* -thinking and which carries a client-supplied thinking block, the transform
\* changes only the model name (suffix stripped, UpstreamModelName set to it):
\* max_tokens, the thinking block and its budget, temperature and top_p stay
\* as the client sent them; with the adapter disabled, or a model that does
\* not end in -thinking, the step changes nothing.
C26_ClientThinkingKept ==
    [][applied' = applied + 1 =>
        LET req == Val(textRequest)
            trimmed == TrimSuffix(req.Model, "thinking")
        IN  /\ (/\ settings.ThinkingAdapterEnabled
                /\ HasSuffix(req.Model, "thinking")
                /\ req.Thinking # Nil) =>
                  /\ textRequest' = Some([req EXCEPT !.Model = trimmed])
                  /\ relayInfo' = [relayInfo EXCEPT !.UpstreamModelName = trimmed]
            /\ (~settings.ThinkingAdapterEnabled \/ ~HasSuffix(req.Model, "thinking")) =>
                  /\ textRequest' = textRequest
                  /\ relayInfo' = relayInfo]_vars

C26_Witness ==
    /\ pc = "ThinkingTransform"
    /\ applied = 1
    /\ settings.ThinkingAdapterEnabled
    /\ HasSuffix(inbound.Model, "thinking")
    /\ inbound.Thinking # Nil
    /\ inbound.TopP # 0
    /\ inbound.MaxTokens < MinThinkingMaxTokens
    /\ Val(textRequest) = [BoundRequest(inbound) EXCEPT
                             !.Model = TrimSuffix(inbound.Model, "thinking")]
    /\ relayInfo.UpstreamModelName = TrimSuffix(inbound.Model, "thinking")
    /\ relayInfo.UpstreamModelName # inbound.Model

\* the URL forms of a streaming and of a buffered request
StreamingMethods == {"streamRawPredict?alt=sse", "streamGenerateContent?alt=sse"}

BufferedMethods == {"rawPredict", "generateContent", "chat/completions"}

\* C22: after Init on a model name, RequestMode is Claude for a name that
\* starts with claude, else Gemini for one that starts with gemini, else Llama
\* for one that contains llama; GetRequestURL then returns an error for a name
\* of none of the three families, and otherwise a URL that has the streaming
\* form exactly when IsStream is true and the buffered form otherwise, the
\* host without a region for region "global" and with the region otherwise,
\* and for a Claude model its claudeModelMap alias, or the name itself when it
\* has none.
C22_VertexInitAndURL ==
    (pc = "GetRequestURL" /\ applied = 1 /\ relayInfo.ApiKey # "not_json") =>
        LET name == relayInfo.OriginModelName
            mode == Val(adaptor).RequestMode
            url == Val(requestURL)
            region == relayInfo.ApiVersion
        IN  /\ mode = (IF name[1] = "claude" THEN RequestModeClaude
                       ELSE IF name[1] = "gemini" THEN RequestModeGemini
                       ELSE IF \E i \in 1..Len(name) : name[i] = "llama"
                       THEN RequestModeLlama
                       ELSE 0)
            /\ mode = 0 => url = NoURL
            /\ mode # 0 =>
                  /\ url # NoURL
                  /\ url.host = (IF region = "global" THEN "aiplatform.googleapis.com"
                                 ELSE "<region>-aiplatform.googleapis.com")
                  /\ url.location = region
                  /\ relayInfo.IsStream => url.method \in StreamingMethods
                  /\ ~relayInfo.IsStream => url.method \in BufferedMethods
            /\ mode = RequestModeClaude =>
                  url.model = (IF name \in DOMAIN claudeModelMap
                               THEN claudeModelMap[name] ELSE name)

====
